---- MODULE Spec2Model ----
(***************************************************************************)
(* FIFO lot matching and capital-gains summary of TaxCalculator.py.        *)
(*                                                                         *)
(* Numbers.  The program computes in binary floating point on decimal      *)
(* input.  The model computes exactly: an asset amount is a whole number   *)
(* of the smallest amount step (1e-8, the precision the program rounds     *)
(* amounts to), money is a whole number of cents (the precision the        *)
(* program rounds money to), a tax rate is a whole number of percent, a    *)
(* date is a day number.  A value that is not a whole number of cents (a   *)
(* pro-rated fee, a gain, a tax) is the fraction [num, den] with den > 0.  *)
(* round(x, 2) is rounding of such a fraction to whole cents, ties going   *)
(* to the even cent; round(x, 8) of a whole number of amount steps and     *)
(* round(x, 2) of a whole number of cents change nothing.                  *)
(***************************************************************************)
EXTENDS Integers, Sequences, FiniteSets, TLC

\* ---- bounds of the model ----
MaxTx == 3          \* longest transaction list
MaxAmount == 3      \* largest amount of one transaction
MaxGains == 3       \* longest realization list given to summarize_gains alone
MaxCalls == 2       \* calls of summarize_gains on one list

\* ---- program constants (TaxCalculator.py:24-26, 35-36) ----
SHORT_TERM_TAX_RATE == 24
LONG_TERM_TAX_RATE == 15
MAX_CAPITAL_LOSS_DEDUCTION == 300000
TRANSACTION_BUY == "BUY"
TRANSACTION_SELL == "SALE"

\* ---- input values ----
OTHER_TYPE == "TRANSFER"
Dates == {0, 1, 366}
BuyPrices == {100000, 300000}
SellPrices == {300000}
Fees == {0, 40}
Amounts == {1, MaxAmount}
GainValues == {-500000, -100000, 0, 100000, 500000}

VARIABLES
    pc,              \* "for" | "while" | "summarize" | "done"
    outcome,         \* how calculate_gains ended: "running" | "returned"
    transactions,    \* the part of the sorted list the for loop has reached
    lots,            \* calculate_gains: lots
    lot_buy,         \* history: for each open lot, the index of its Buy
    realized,        \* calculate_gains: realized
    locals,          \* history: the loop body's unrounded values, per realization
    amount_to_sell,  \* calculate_gains: amount_to_sell
    open_before,     \* history: per transaction, the total amount of the lots
                     \* open when the for loop took it up
    lots_before,     \* history: per transaction, the number of those lots
    calls,           \* number of calls of summarize_gains so far
    first,           \* history: the figures of the call before this one
    gi,              \* summarize_gains: number of realizations folded so far
    st_gain, st_loss, lt_gain, lt_loss, total_tax,
    net_gain, net_loss, deductible_loss

vars == <<pc, outcome, transactions, lots, lot_buy, realized, locals, amount_to_sell,
          open_before, lots_before, calls, first, gi, st_gain, st_loss, lt_gain, lt_loss, total_tax,
          net_gain, net_loss, deductible_loss>>

calcVars == <<transactions, lots, lot_buy, realized, locals, amount_to_sell,
              open_before, lots_before, outcome>>
sumVars == <<gi, st_gain, st_loss, lt_gain, lt_loss, total_tax,
             net_gain, net_loss, deductible_loss, calls, first>>

\* ---- arithmetic ----
Min(a, b) == IF a <= b THEN a ELSE b
Abs(a) == IF a < 0 THEN -a ELSE a
Frac(n, d) == [num |-> n, den |-> d]

RECURSIVE Gcd(_, _)
Gcd(a, b) == IF b = 0 THEN a ELSE Gcd(b, a % b)

\* equality of two fractions as numbers
SameValue(x, y) ==
    LET gx == Gcd(Abs(x.num), x.den)
        gy == Gcd(Abs(y.num), y.den)
    IN  /\ x.num \div gx = y.num \div gy
        /\ x.den \div gx = y.den \div gy

\* round(x, 2) of the fraction n/d of a cent count, d > 0
Round2(n, d) ==
    LET q == n \div d
        r == n - q * d
    IN  IF 2 * r < d THEN q
        ELSE IF 2 * r > d THEN q + 1
        ELSE IF q % 2 = 0 THEN q ELSE q + 1

\* ---- load_transactions ----
SortedByDate(s) == \A i \in 1..(Len(s) - 1) : s[i].date <= s[i + 1].date

Transaction(d, t, a, p, f) ==
    [date |-> d, type |-> t, amount |-> a, price |-> p, fees |-> f]

RECURSIVE OpenAmount(_)
OpenAmount(q) == IF q = <<>> THEN 0 ELSE Head(q).amount + OpenAmount(Tail(q))

\* the next element of the list: any transaction that keeps the list sorted
NextTx(t) ==
    /\ Len(transactions) < MaxTx
    /\ SortedByDate(Append(transactions, t))
    /\ transactions' = Append(transactions, t)
    /\ open_before' = Append(open_before, OpenAmount(lots))
    /\ lots_before' = Append(lots_before, Len(lots))

tx == transactions[Len(transactions)]

\* the figures of summarize_gains as one value
Totals ==
    [st_gain |-> st_gain, st_loss |-> st_loss, lt_gain |-> lt_gain,
     lt_loss |-> lt_loss, total_tax |-> total_tax, net_gain |-> net_gain,
     net_loss |-> net_loss, deductible_loss |-> deductible_loss]

\* slip: the totals live on from one call to the next
StartTotals_Kept(old) == old

\* st_gain, st_loss, lt_gain, lt_loss, total_tax = 0, 0, 0, 0, 0: the locals of
\* a call start afresh, whatever an earlier call left
StartTotals(old) ==
    [st_gain |-> 0, st_loss |-> 0, lt_gain |-> 0, lt_loss |-> 0, total_tax |-> 0,
     net_gain |-> 0, net_loss |-> 0, deductible_loss |-> 0]

\* the entry of summarize_gains
EnterSummarize ==
    LET t == StartTotals(Totals)
    IN  /\ gi' = 0
        /\ st_gain' = t.st_gain /\ st_loss' = t.st_loss
        /\ lt_gain' = t.lt_gain /\ lt_loss' = t.lt_loss
        /\ total_tax' = t.total_tax
        /\ net_gain' = t.net_gain /\ net_loss' = t.net_loss
        /\ deductible_loss' = t.deductible_loss
        /\ calls' = calls + 1
        /\ first' = Totals

\* ---- calculate_gains ----
Init ==
    /\ pc = "for"
    /\ outcome = "running"
    /\ transactions = <<>>
    /\ lots = <<>>
    /\ lot_buy = <<>>
    /\ realized = <<>>
    /\ locals = <<>>
    /\ amount_to_sell = 0
    /\ open_before = <<>>
    /\ lots_before = <<>>
    /\ calls = 0
    /\ gi = 0
    /\ st_gain = 0 /\ st_loss = 0 /\ lt_gain = 0 /\ lt_loss = 0 /\ total_tax = 0
    /\ net_gain = 0 /\ net_loss = 0 /\ deductible_loss = 0
    /\ first = Totals

\* slip: the newest lot instead of the oldest
BackLot(q) == Len(q)

\* lot = lots[0]
FrontLot(q) == 1

\* slip: the whole lot is taken, whatever is still to sell
AmountFromLot_Whole(need, avail) == avail

\* amount_from_lot = min(amount_to_sell, lot['amount'])
AmountFromLot(need, avail) == Min(need, avail)

\* slip: divided by what is still to sell, not by the Sell's amount
SellFeeShare_Remaining(sell_fees, amount_from_lot, tx_amount) ==
    Frac(sell_fees * amount_from_lot, amount_to_sell)

\* sell_fees * (amount_from_lot / tx['amount'])
SellFeeShare(sell_fees, amount_from_lot, tx_amount) ==
    Frac(sell_fees * amount_from_lot, tx_amount)

\* lot['fees'] * (amount_from_lot / lot['amount']), lot['amount'] being what is
\* left of the lot when the share is taken
BuyFeeShare(lot, amount_from_lot) ==
    Frac(lot.fees * amount_from_lot, lot.amount)

\* gain = proceeds - cost_basis - sell fee share - buy fee share
Gain(proceeds, cost_basis, sf, bf) ==
    Frac((proceeds - cost_basis) * sf.den * bf.den - sf.num * bf.den - bf.num * sf.den,
         sf.den * bf.den)

\* slip: >= in place of >
LongTerm_Inclusive(holding_period_days) == holding_period_days >= 365

\* long_term = holding_period_days > 365
LongTerm(holding_period_days) == holding_period_days > 365

TaxRate(long_term) == IF long_term THEN LONG_TERM_TAX_RATE ELSE SHORT_TERM_TAX_RATE

\* slip: no floor at 0
TaxOwed_Signed(gain, tax_rate) == Frac(gain.num * tax_rate, gain.den * 100)

\* tax_owed = gain * tax_rate if gain > 0 else 0.0
TaxOwed(gain, tax_rate) ==
    IF gain.num > 0 THEN Frac(gain.num * tax_rate, gain.den * 100) ELSE Frac(0, 1)

\* slip: < in place of ==
LotExhausted_Negative(amount) == amount < 0

\* if lot['amount'] == 0
LotExhausted(amount) == amount = 0

\* slip: the lot is put in front
PushLot_Front(q, x) == <<x>> \o q

\* lots.append({...})
PushLot(q, x) == Append(q, x)

\* slip: pop() in place of pop(0)
PopLot_Last(q) == SubSeq(q, 1, Len(q) - 1)

\* lots.pop(0)
PopLot(q) == Tail(q)

\* slip: the lot is used up by any draw
Remaining_None(amount, amount_from_lot) == 0

\* slip: the lot is not drawn down
Remaining_Unchanged(amount, amount_from_lot) == amount

\* lot['amount'] -= amount_from_lot
Remaining(amount, amount_from_lot) == amount - amount_from_lot

\* for tx in transactions: if tx['type'] == TRANSACTION_BUY
ForBuy ==
    /\ pc = "for"
    /\ \E d \in Dates, a \in Amounts, p \in BuyPrices, f \in Fees :
          NextTx(Transaction(d, TRANSACTION_BUY, a, p, f))
    /\ lots' = PushLot(lots, [amount |-> tx'.amount, price |-> tx'.price,
                              date |-> tx'.date, fees |-> tx'.fees])
    /\ lot_buy' = PushLot(lot_buy, Len(transactions'))
    /\ UNCHANGED <<pc, outcome, realized, locals, amount_to_sell>>
    /\ UNCHANGED sumVars

\* elif tx['type'] == TRANSACTION_SELL: the assignments before the while loop
ForSell ==
    /\ pc = "for"
    /\ \E d \in Dates, a \in Amounts, p \in SellPrices, f \in Fees :
          NextTx(Transaction(d, TRANSACTION_SELL, a, p, f))
    /\ amount_to_sell' = tx'.amount
    /\ pc' = "while"
    /\ UNCHANGED <<outcome, lots, lot_buy, realized, locals>>
    /\ UNCHANGED sumVars

\* a transaction of any other type matches neither branch of the if
ForOther ==
    /\ pc = "for"
    /\ \E d \in Dates :
          NextTx(Transaction(d, OTHER_TYPE, 1, 100000, 0))
    /\ UNCHANGED <<pc, outcome, lots, lot_buy, realized, locals, amount_to_sell>>
    /\ UNCHANGED sumVars

\* one pass through the body of: while amount_to_sell > 0 and lots
WhileBody ==
    /\ pc = "while"
    /\ amount_to_sell > 0 /\ lots # <<>>
    /\ LET k == FrontLot(lots)
           lot == lots[k]
           amount_from_lot == AmountFromLot(amount_to_sell, lot.amount)
           cost_basis == amount_from_lot * lot.price
           proceeds == amount_from_lot * tx.price
           sf == SellFeeShare(tx.fees, amount_from_lot, tx.amount)
           bf == BuyFeeShare(lot, amount_from_lot)
           gain == Gain(proceeds, cost_basis, sf, bf)
           holding_period_days == tx.date - lot.date
           long_term == LongTerm(holding_period_days)
           tax_rate == TaxRate(long_term)
           tax_owed == TaxOwed(gain, tax_rate)
           drawn == [lots EXCEPT ![k].amount = Remaining(@, amount_from_lot)]
           popped == LotExhausted(drawn[k].amount)
       IN  /\ realized' = Append(realized,
                 [sell_date |-> tx.date,
                  buy_date |-> lot.date,
                  amount |-> amount_from_lot,
                  cost_basis |-> cost_basis,
                  proceeds |-> proceeds,
                  gain |-> Round2(gain.num, gain.den),
                  holding_days |-> holding_period_days,
                  term |-> IF long_term THEN "Long" ELSE "Short",
                  tax_rate |-> tax_rate,
                  tax_owed |-> Round2(tax_owed.num, tax_owed.den)])
           /\ locals' = Append(locals,
                 [sell |-> Len(transactions),
                  buy |-> lot_buy[k],
                  lot_amount |-> lot.amount,
                  sell_fee |-> sf,
                  buy_fee |-> bf,
                  gain |-> gain,
                  tax_owed |-> tax_owed])
           /\ lots' = IF popped THEN PopLot(drawn) ELSE drawn
           /\ lot_buy' = IF popped THEN PopLot(lot_buy) ELSE lot_buy
           /\ amount_to_sell' = amount_to_sell - amount_from_lot
    /\ UNCHANGED <<pc, outcome, transactions, open_before, lots_before>>
    /\ UNCHANGED sumVars

\* the while condition is false: on to the next transaction
WhileExit ==
    /\ pc = "while"
    /\ ~(amount_to_sell > 0 /\ lots # <<>>)
    /\ pc' = "for"
    /\ UNCHANGED <<outcome, transactions, lots, lot_buy, realized, locals,
                   amount_to_sell, open_before, lots_before>>
    /\ UNCHANGED sumVars

\* the list is at its end: return realized; __main__ hands it to summarize_gains
Return ==
    /\ pc = "for"
    /\ outcome' = "returned"
    /\ pc' = "summarize"
    /\ EnterSummarize
    /\ UNCHANGED <<transactions, lots, lot_buy, realized, locals, amount_to_sell,
                   open_before, lots_before>>

\* ---- summarize_gains ----
\* slip: no cap
DeductibleLoss_Uncapped(ng, nl) == IF ng < 0 THEN Abs(nl) ELSE 0

\* deductible_loss = min(abs(net_loss), MAX) if net_gain < 0 else 0.0
DeductibleLoss(ng, nl) ==
    IF ng < 0 THEN Min(Abs(nl), MAX_CAPITAL_LOSS_DEDUCTION) ELSE 0

\* slip: the sign of the gain is not looked at
Bucket_ByTerm(g) == IF g.term = "Short" THEN "st_gain" ELSE "lt_gain"

\* which of the four totals a realization is added to
Bucket(g) ==
    IF g.term = "Short"
    THEN IF g.gain >= 0 THEN "st_gain" ELSE "st_loss"
    ELSE IF g.gain >= 0 THEN "lt_gain" ELSE "lt_loss"

\* one pass through the body of: for g in gains
SummarizeLoop ==
    /\ pc = "summarize"
    /\ gi < Len(realized)
    /\ LET g == realized[gi + 1]
           b == Bucket(g)
       IN  /\ st_gain' = IF b = "st_gain" THEN st_gain + g.gain ELSE st_gain
           /\ st_loss' = IF b = "st_loss" THEN st_loss + g.gain ELSE st_loss
           /\ lt_gain' = IF b = "lt_gain" THEN lt_gain + g.gain ELSE lt_gain
           /\ lt_loss' = IF b = "lt_loss" THEN lt_loss + g.gain ELSE lt_loss
           /\ total_tax' = total_tax + g.tax_owed
    /\ gi' = gi + 1
    /\ UNCHANGED <<pc, net_gain, net_loss, deductible_loss, calls, first>>
    /\ UNCHANGED calcVars

\* after the loop: net_gain, net_loss, deductible_loss
SummarizeEnd ==
    /\ pc = "summarize"
    /\ gi = Len(realized)
    /\ net_gain' = st_gain + lt_gain + st_loss + lt_loss
    /\ net_loss' = st_loss + lt_loss
    /\ deductible_loss' = DeductibleLoss(net_gain', net_loss')
    /\ pc' = "done"
    /\ UNCHANGED <<gi, st_gain, st_loss, lt_gain, lt_loss, total_tax, calls, first>>
    /\ UNCHANGED calcVars

Next ==
    \/ ForBuy
    \/ ForSell
    \/ ForOther
    \/ WhileBody
    \/ WhileExit
    \/ Return
    \/ SummarizeLoop
    \/ SummarizeEnd

Spec == Init /\ [][Next]_vars

\* calculate_gains up to its return; the program runs one statement after the
\* other and never waits
CalcNext ==
    \/ ForBuy
    \/ ForSell
    \/ ForOther
    \/ WhileBody
    \/ WhileExit
    \/ Return

LiveSpec == Init /\ [][CalcNext]_vars /\ WF_vars(CalcNext)

\* ---- summarize_gains on its own: any realization list as its argument ----
Realization(gain, term) ==
    [sell_date |-> 366, buy_date |-> 0, amount |-> 1,
     cost_basis |-> 500000, proceeds |-> 500000 + gain, gain |-> gain,
     holding_days |-> 366, term |-> term,
     tax_rate |-> TaxRate(term = "Long"),
     tax_owed |-> LET t == TaxOwed(Frac(gain, 1), TaxRate(term = "Long"))
                  IN  Round2(t.num, t.den)]

Realizations == { Realization(g, t) : g \in GainValues, t \in {"Short", "Long"} }

SumInit ==
    /\ pc = "summarize"
    /\ outcome = "returned"
    /\ transactions = <<>>
    /\ lots = <<>>
    /\ lot_buy = <<>>
    /\ realized \in UNION { [1..n -> Realizations] : n \in 0..MaxGains }
    /\ locals = <<>>
    /\ amount_to_sell = 0
    /\ open_before = <<>>
    /\ lots_before = <<>>
    /\ calls = 1
    /\ gi = 0
    /\ st_gain = 0 /\ st_loss = 0 /\ lt_gain = 0 /\ lt_loss = 0 /\ total_tax = 0
    /\ net_gain = 0 /\ net_loss = 0 /\ deductible_loss = 0
    /\ first = Totals

\* summarize_gains called once more with the same list
SummarizeAgain ==
    /\ pc = "done"
    /\ calls < MaxCalls
    /\ EnterSummarize
    /\ pc' = "summarize"
    /\ UNCHANGED calcVars

SumNext ==
    \/ SummarizeLoop
    \/ SummarizeEnd
    \/ SummarizeAgain

SumSpec == SumInit /\ [][SumNext]_vars

\* ======================= properties =======================
IsSell(i) == transactions[i].type = TRANSACTION_SELL
IsBuy(i) == transactions[i].type = TRANSACTION_BUY

\* the Sells whose while loop is over
DoneSells == { i \in 1..Len(transactions) :
                 IsSell(i) /\ (i < Len(transactions) \/ pc # "while") }

\* the realizations emitted for transaction i as a Sell, and those drawn from
\* the lot of transaction b as a Buy
RealizedOf(i) == { k \in 1..Len(locals) : locals[k].sell = i }
DrawnFrom(b) == { k \in 1..Len(locals) : locals[k].buy = b }

RECURSIVE SumAmount(_)
SumAmount(K) ==
    IF K = {} THEN 0
    ELSE LET k == CHOOSE x \in K : TRUE
         IN  realized[k].amount + SumAmount(K \ {k})

RECURSIVE SumGain(_)
SumGain(K) ==
    IF K = {} THEN 0
    ELSE LET k == CHOOSE x \in K : TRUE
         IN  realized[k].gain + SumGain(K \ {k})

RECURSIVE SumTax(_)
SumTax(K) ==
    IF K = {} THEN 0
    ELSE LET k == CHOOSE x \in K : TRUE
         IN  realized[k].tax_owed + SumTax(K \ {k})

Satisfiable(i) == transactions[i].amount <= open_before[i]

\* C1: the realizations of a Sell that the open lots could cover add up to
\* the Sell's amount exactly.
C1_Conservation ==
    \A i \in DoneSells :
        Satisfiable(i) => SumAmount(RealizedOf(i)) = transactions[i].amount

\* a covered Sell that was matched against two lots
C1_Witness ==
    \E i \in DoneSells :
        /\ Satisfiable(i)
        /\ Cardinality(RealizedOf(i)) >= 2
        /\ lots # <<>>

\* C2: a Sell of more than the open lots hold ends the run in OversoldError;
\* no realization list is returned in which a Sell is matched only in part.
C2_OversoldError ==
    /\ \A i \in DoneSells : ~Satisfiable(i) => outcome = "OversoldError"
    /\ outcome = "returned" =>
          \A i \in DoneSells : SumAmount(RealizedOf(i)) >= transactions[i].amount

\* a partly matched Sell in a returned list
C2_Reached ==
    /\ outcome = "returned"
    /\ \E i \in DoneSells : ~Satisfiable(i) /\ RealizedOf(i) # {}

RECURSIVE Fact(_)
Fact(n) == IF n <= 1 THEN 1 ELSE n * Fact(n - 1)

\* the buy-fee shares of the realizations K, as a multiple of 1/D of a cent
RECURSIVE SumBuyFee(_, _)
SumBuyFee(K, D) ==
    IF K = {} THEN 0
    ELSE LET k == CHOOSE x \in K : TRUE
         IN  (locals[k].buy_fee.num * D) \div locals[k].buy_fee.den
               + SumBuyFee(K \ {k}, D)

\* the Buys whose lot has left the queue
ClosedLots == { b \in 1..Len(transactions) :
                  /\ IsBuy(b)
                  /\ DrawnFrom(b) # {}
                  /\ \A i \in 1..Len(lot_buy) : lot_buy[i] # b }

\* C3: the buy-fee share of a realization is the lot's fee times the amount
\* consumed over the lot's amount at creation, and the shares of a closed lot
\* add up to the lot's fee.
C3_BuyFeeShare ==
    /\ \A k \in 1..Len(locals) :
          LET b == transactions[locals[k].buy]
          IN  locals[k].buy_fee.num * b.amount
                = b.fees * realized[k].amount * locals[k].buy_fee.den
    /\ \A b \in ClosedLots :
          LET D == Fact(transactions[b].amount)
          IN  SumBuyFee(DrawnFrom(b), D) = transactions[b].fees * D

\* C4: a realization is drawn from the oldest open lot (no lot of an earlier
\* Buy is in the queue when it is emitted), and within one Sell the lots
\* follow in creation order with non-decreasing acquired dates.
C4_FIFO ==
    [][Len(realized') = Len(realized) + 1 =>
        LET n == Len(realized')
        IN  /\ \A i \in 1..Len(lot_buy) : lot_buy[i] >= locals'[n].buy
            /\ (n > 1 /\ locals'[n - 1].sell = locals'[n].sell) =>
                  /\ realized'[n - 1].buy_date <= realized'[n].buy_date
                  /\ locals'[n - 1].buy < locals'[n].buy]_vars

\* one Sell matched against two lots of different dates
C4_Witness ==
    \E k \in 1..(Len(locals) - 1) :
        /\ locals[k].sell = locals[k + 1].sell
        /\ realized[k].buy_date < realized[k + 1].buy_date

\* C5: every lot in the queue has a remaining amount above 0.
C5_LotExhaustion == \A i \in 1..Len(lots) : lots[i].amount > 0

\* a lot has been drawn to 0 and removed, the next one is partly drawn
C5_Witness ==
    /\ pc = "for"
    /\ ClosedLots # {}
    /\ lots # <<>>
    /\ lots[1].amount < transactions[lot_buy[1]].amount

\* C6: term is Long exactly above 365 holding days, and the tax rate is the
\* long-term rate exactly for term Long.
C6_TermBoundary ==
    \A k \in 1..Len(locals) :
        /\ realized[k].holding_days = realized[k].sell_date - realized[k].buy_date
        /\ realized[k].term = (IF realized[k].holding_days >= 366 THEN "Long" ELSE "Short")
        /\ realized[k].tax_rate =
              (IF realized[k].term = "Long" THEN LONG_TERM_TAX_RATE
                                          ELSE SHORT_TERM_TAX_RATE)

\* one realization held 365 days and one held 366 days
C6_Witness ==
    /\ \E k \in 1..Len(locals) :
          realized[k].holding_days = 365 /\ realized[k].term = "Short"
    /\ \E k \in 1..Len(locals) :
          realized[k].holding_days = 366 /\ realized[k].term = "Long"

All == 1..Len(realized)
Losses == { k \in All : realized[k].gain < 0 }

\* C7: with a net loss of L the deductible loss is min(L, MAX); with a net
\* gain it is 0.
C7_DeductionOfNetLoss ==
    pc = "done" =>
        deductible_loss =
            (IF SumGain(All) < 0
             THEN Min(-SumGain(All), MAX_CAPITAL_LOSS_DEDUCTION) ELSE 0)

\* C8: the deductible loss is 0 for net >= 0 and min(|short loss + long
\* loss|, MAX) for net < 0, so it lies in 0..MAX.
C8_DeductibleLoss ==
    pc = "done" =>
        /\ deductible_loss =
              (IF SumGain(All) >= 0 THEN 0
               ELSE Min(-SumGain(Losses), MAX_CAPITAL_LOSS_DEDUCTION))
        /\ deductible_loss \in 0..MAX_CAPITAL_LOSS_DEDUCTION

\* a net loss, with a gain in the list, whose losses exceed the cap
C8_Witness ==
    /\ pc = "done"
    /\ SumGain(All) < 0
    /\ -SumGain(Losses) > MAX_CAPITAL_LOSS_DEDUCTION
    /\ deductible_loss = MAX_CAPITAL_LOSS_DEDUCTION
    /\ \E k \in All : realized[k].gain > 0

\* C9: tax_owed is gain * tax_rate for a gain above 0 and 0 otherwise, so it
\* is never negative; total_tax is the sum of tax_owed over the realizations
\* folded in, so it never goes down.
C9_TaxOwed ==
    /\ \A k \in 1..Len(locals) :
          LET g == locals[k].gain
              t == locals[k].tax_owed
          IN  /\ IF g.num > 0
                 THEN SameValue(t, Frac(g.num * realized[k].tax_rate, g.den * 100))
                 ELSE t.num = 0
              /\ 2 * Abs(realized[k].tax_owed * t.den - t.num) <= t.den
    /\ \A k \in All : realized[k].tax_owed >= 0
    /\ total_tax = SumTax(1..gi)
    /\ \A j \in 0..gi : SumTax(1..j) <= total_tax

\* a loss and a taxed gain, both folded into the summary
C9_Witness ==
    /\ pc = "done"
    /\ \E k \in 1..Len(locals) : locals[k].gain.num < 0 /\ realized[k].tax_owed = 0
    /\ \E k \in 1..Len(locals) : locals[k].gain.num > 0 /\ realized[k].tax_owed > 0
    /\ total_tax > 0

\* C10: a transaction that is neither a Buy nor a Sell ends the run in an
\* error.
C10_MalformedInput ==
    \A i \in 1..Len(transactions) :
        ~(IsBuy(i) \/ IsSell(i)) => outcome = "MalformedInput"

\* C11: a second call of summarize_gains on the same list ends with the
\* figures of the first call, and no step of summarize_gains changes the list.
C11_Idempotence ==
    [][/\ realized' = realized
       /\ (pc' = "done" /\ calls' >= 2) => Totals' = first']_vars

\* a second call has ended, on a list with a taxed gain and a loss
C11_Witness ==
    /\ pc = "done"
    /\ calls = 2
    /\ total_tax > 0
    /\ st_loss + lt_loss < 0
    /\ Totals = first

\* the step that takes up a Buy
BuyStep ==
    /\ Len(transactions') = Len(transactions) + 1
    /\ transactions'[Len(transactions')].type = TRANSACTION_BUY

\* C12: a Buy puts one lot with its amount, price, date and fee at the back
\* of the queue and changes neither the lots already there nor the
\* realization list.
C12_BuyFrame ==
    [][BuyStep =>
        LET t == transactions'[Len(transactions')]
        IN  /\ Len(lots') = Len(lots) + 1
            /\ \A i \in 1..Len(lots) : lots'[i] = lots[i]
            /\ lots'[Len(lots')] = [amount |-> t.amount, price |-> t.price,
                                    date |-> t.date, fees |-> t.fees]
            /\ realized' = realized]_vars

\* a Buy has just joined a queue whose front lot is partly drawn
C12_Witness ==
    /\ pc = "for"
    /\ transactions # <<>>
    /\ tx.type = TRANSACTION_BUY
    /\ Len(lots) >= 2
    /\ realized # <<>>
    /\ lots[1].amount < transactions[lot_buy[1]].amount

\* the sell-fee shares of the realizations K, as a multiple of 1/D of a cent
RECURSIVE SumSellFee(_, _)
SumSellFee(K, D) ==
    IF K = {} THEN 0
    ELSE LET k == CHOOSE x \in K : TRUE
         IN  (locals[k].sell_fee.num * D) \div locals[k].sell_fee.den
               + SumSellFee(K \ {k}, D)

\* C13: the sell-fee share of a realization is the Sell's fee times the amount
\* consumed over the Sell's amount, the shares of a fully matched Sell add up
\* to its fee, proceeds and cost basis are the amount consumed times the sell
\* price and the lot's price, and the gain is proceeds less cost basis less
\* the two fee shares subtracted.
C13_SellFeeShare ==
    /\ \A k \in 1..Len(locals) :
          LET s == transactions[locals[k].sell]
              b == transactions[locals[k].buy]
              c == realized[k].amount
              sf == locals[k].sell_fee
              bf == locals[k].buy_fee
              g == locals[k].gain
          IN  /\ sf.num * s.amount = s.fees * c * sf.den
              /\ realized[k].proceeds = c * s.price
              /\ realized[k].cost_basis = c * b.price
              /\ SameValue(g, Frac((c * s.price - c * b.price) * sf.den * bf.den
                                     - sf.num * bf.den - bf.num * sf.den,
                                   sf.den * bf.den))
              /\ 2 * Abs(realized[k].gain * g.den - g.num) <= g.den
    /\ \A i \in DoneSells :
          Satisfiable(i) =>
              LET D == Fact(transactions[i].amount)
              IN  SumSellFee(RealizedOf(i), D) = transactions[i].fees * D

\* a Sell with a fee, fully matched against two lots
C13_Witness ==
    \E i \in DoneSells :
        /\ Satisfiable(i)
        /\ transactions[i].fees > 0
        /\ Cardinality(RealizedOf(i)) >= 2

\* the queue holds lots of distinct Buys in the order of the Buys, each with
\* the date, price and fee of its Buy, oldest date first
QueueOrdered ==
    /\ Len(lot_buy) = Len(lots)
    /\ \A i \in 1..Len(lots) :
          /\ lot_buy[i] \in 1..Len(transactions)
          /\ IsBuy(lot_buy[i])
          /\ lots[i].date = transactions[lot_buy[i]].date
          /\ lots[i].price = transactions[lot_buy[i]].price
          /\ lots[i].fees = transactions[lot_buy[i]].fees
          /\ lots[i].amount <= transactions[lot_buy[i]].amount
    /\ \A i, j \in 1..Len(lots) :
          i < j => lot_buy[i] < lot_buy[j] /\ lots[i].date <= lots[j].date

\* C14: the queue is always in acquired-date and creation order with at most
\* one lot per Buy; no step merges or reorders lots, and a lot leaves the
\* queue only from the front.
C14_QueueOrder ==
    [][/\ QueueOrdered'
       /\ Len(lots') < Len(lots) =>
             /\ lots' = Tail(lots)
             /\ lot_buy' = Tail(lot_buy)
       /\ Len(lots') >= Len(lots) =>
             \A i \in 1..Len(lots) : lot_buy'[i] = lot_buy[i]]_vars

\* the oldest lot has left the queue and a lot of a later date is at the front
C14_Witness ==
    /\ lots # <<>>
    /\ \E b \in ClosedLots : transactions[b].date < lots[1].date

\* the realizations folded so far with the given term and sign of gain
Folded(term, loss) ==
    { k \in 1..gi : realized[k].term = term /\ ((realized[k].gain < 0) <=> loss) }

\* C15: each total is the sum of the gains of the realizations of its term
\* and sign, a gain of 0 counting as a gain; the gain totals are never below
\* 0, the loss totals never above 0, and net is the sum of the four totals and
\* of all gains.
C15_Buckets ==
    /\ st_gain = SumGain(Folded("Short", FALSE))
    /\ st_loss = SumGain(Folded("Short", TRUE))
    /\ lt_gain = SumGain(Folded("Long", FALSE))
    /\ lt_loss = SumGain(Folded("Long", TRUE))
    /\ st_gain >= 0 /\ lt_gain >= 0
    /\ st_loss <= 0 /\ lt_loss <= 0
    /\ pc = "done" =>
          /\ net_gain = st_gain + st_loss + lt_gain + lt_loss
          /\ net_gain = SumGain(All)

\* a gain, a loss and a gain of 0 have been folded in
C15_Witness ==
    /\ pc = "done"
    /\ st_gain + lt_gain > 0
    /\ st_loss + lt_loss < 0
    /\ \E k \in All : realized[k].gain = 0

\* a common denominator of the unrounded gains: every divisor of a fee share
\* is an amount of at most MaxAmount
GainScale == Fact(MaxAmount) * Fact(MaxAmount)
TaxScale == GainScale * 100

\* the unrounded gains and taxes of the realizations K, as multiples of
\* 1/GainScale and 1/TaxScale of a cent
RECURSIVE SumExactGain(_)
SumExactGain(K) ==
    IF K = {} THEN 0
    ELSE LET k == CHOOSE x \in K : TRUE
         IN  locals[k].gain.num * (GainScale \div locals[k].gain.den)
               + SumExactGain(K \ {k})

RECURSIVE SumExactTax(_)
SumExactTax(K) ==
    IF K = {} THEN 0
    ELSE LET k == CHOOSE x \in K : TRUE
         IN  locals[k].tax_owed.num * (TaxScale \div locals[k].tax_owed.den)
               + SumExactTax(K \ {k})

\* C16: rounding touches the output only: net and total_tax of the summary
\* are the sums of the unrounded gains and taxes of the realizations.
C16_FullPrecisionTotals ==
    (pc = "done" /\ Len(locals) = Len(realized)) =>
        /\ net_gain * GainScale = SumExactGain(All)
        /\ total_tax * TaxScale = SumExactTax(All)

\* the amounts of the Buys among the first n transactions
RECURSIVE Bought(_)
Bought(n) ==
    IF n = 0 THEN 0
    ELSE (IF IsBuy(n) THEN transactions[n].amount ELSE 0) + Bought(n - 1)

NoOversell == \A i \in 1..Len(transactions) : IsSell(i) => Satisfiable(i)

\* C17: as long as no Sell is oversold, what was bought is what the
\* realizations consumed plus what the open lots still hold.
C17_AmountBalance ==
    NoOversell =>
        Bought(Len(transactions)) = SumAmount(1..Len(locals)) + OpenAmount(lots)

\* two Buys and a Sell that uses up the first lot and part of the second
C17_Witness ==
    /\ pc = "for"
    /\ NoOversell
    /\ Len(locals) = 2
    /\ locals[1].sell = locals[2].sell
    /\ Len(lots) = 1
    /\ lots[1].amount < transactions[lot_buy[1]].amount

\* C18: only the front lot of the queue can be partly consumed; every lot
\* behind it still has the amount of its Buy.
C18_OnlyFrontPartial ==
    \A i \in 2..Len(lots) : lots[i].amount = transactions[lot_buy[i]].amount

\* the front lot is partly consumed and a whole lot waits behind it
C18_Witness ==
    /\ pc = "for"
    /\ Len(lots) >= 2
    /\ lots[1].amount < transactions[lot_buy[1]].amount

\* C19: every pass of the while loop consumes an amount above 0 and either
\* takes the front lot off the queue or leaves nothing to sell, a Sell emits
\* no more realizations than lots were open when it began, and
\* calculate_gains returns.
C19_Termination ==
    /\ [][Len(realized') = Len(realized) + 1 =>
            LET n == Len(realized')
                i == locals'[n].sell
            IN  /\ realized'[n].amount > 0
                /\ Len(lots') = Len(lots) - 1 \/ amount_to_sell' = 0
                /\ amount_to_sell' >= 0 /\ amount_to_sell' < amount_to_sell
                /\ Cardinality({ k \in 1..n : locals'[k].sell = i }) <= lots_before[i]]_vars
    /\ <>(outcome = "returned")

\* a Sell whose loop ran once for every lot that was open, and has returned
C19_Witness ==
    /\ outcome = "returned"
    /\ \E i \in DoneSells :
          /\ lots_before[i] >= 2
          /\ Cardinality(RealizedOf(i)) = lots_before[i]
====
